---- MODULE Spec2Model ----
(***************************************************************************)
(* Model of the task dependency / retry bookkeeping of AutonomousManager   *)
(* (src/scripts/core/autonomous_manager.py): add_tasks, the polling loop   *)
(* of start_autonomous_execution, _find_ready_tasks, _execute_task,        *)
(* _handle_task_error, _check_task_completion, the progress reports and    *)
(* their delivery to the registered observers by _notify_orchestrator.     *)
(*                                                                         *)
(* A task object is identified by its task_id (a number here); the pending *)
(* queue, the active dict and the completed history hold task ids, and the *)
(* mutable fields of the task objects live in the function `tasks`.        *)
(***************************************************************************)
EXTENDS Integers, Sequences, FiniteSets, TLC

\* ---------------------------------------------------------------- bounds
\* Number of task objects a session may enqueue.
NumTasks == 3
\* Largest max_retry_attempts a task is created with (0..MaxRetry).
MaxRetry == 2
\* Total number of dependency ids declared by all tasks of a session.
MaxDeps == 3
\* Number of observer callbacks a session may register.
MaxCallbacks == 2

\* max_retry_attempts: int = 3, the default of the dataclass.
DefaultMaxRetryAttempts == 3

\* Task ids that tasks of this session get, in declaration order.
TaskIds == 1..NumTasks
\* Ids a dependency list may name: the task ids and one id that no task has.
DepIds == 1..(NumTasks + 1)

VARIABLES
    tasks,            \* task_id -> the fields of the AutonomousTask object
    task_queue,       \* self.task_queue: sequence of task ids
    active_tasks,     \* self.active_tasks: dict in insertion order, as the sequence of its keys
    completed_tasks,  \* self.completed_tasks: sequence of task ids
    ready_tasks,      \* local ready_tasks of the current tick
    idx,              \* position of the for loop over ready_tasks
    pc,               \* position of the runner
    reports,          \* the reports passed to _notify_orchestrator, in emission order
    orchestrator_callbacks, \* self.orchestrator_callbacks: the registered observers
    callback_pos,     \* position of the for loop of _notify_orchestrator (0: not in it)
    execution_log,    \* self.execution_log: the events logged, as <<event_type, subject>>;
                      \* the subject is the task id, the queue length at the start, or
                      \* the position of the callback whose exception was logged
    notified,         \* history: the calls callback(report) made, as
                      \* <<position of the callback, index of the report in reports>>
    previous_ready,   \* history: the list that the first of two direct calls of
                      \* _find_ready_tasks returned
    tick,             \* history: number of loop iterations that executed a task
    attempts,         \* history: task_id -> number of _execute_task calls
    finished_tick     \* history: task_id -> tick in which the task completed or failed (0: not yet)

vars == <<tasks, task_queue, active_tasks, completed_tasks, ready_tasks, idx, pc,
          reports, orchestrator_callbacks, callback_pos, execution_log, notified,
          previous_ready, tick, attempts, finished_tick>>

\* The registered observers, the position of the loop that calls them and the
\* history of the calls made to them.
observer_vars == <<orchestrator_callbacks, callback_pos, notified>>

\* ------------------------------------------------------------ data model
PENDING == "pending"
IN_PROGRESS == "in_progress"
COMPLETED == "completed"
FAILED == "failed"
BLOCKED == "blocked"
CANCELLED == "cancelled"

TaskStatus == {PENDING, IN_PROGRESS, COMPLETED, FAILED, BLOCKED, CANCELLED}

\* AutonomousTask(...) as create_task_plan and the callers build it: status
\* PENDING, retry_count 0, error_log [] (__post_init__).  The dependency list
\* is kept as the set of its ids: the code only tests membership on it.
AutonomousTask(id, deps, max) ==
    [task_id |-> id, status |-> PENDING, dependencies |-> deps,
     max_retry_attempts |-> max, retry_count |-> 0, error_log |-> <<>>]

Range(s) == {s[i] : i \in 1..Len(s)}

\* A sequence in which no entry occurs twice.
NoDuplicates(s) == \A i, j \in 1..Len(s) : s[i] = s[j] => i = j

\* The members of a set of task ids as a list, in ascending order.
RECURSIVE Ascending(_)
Ascending(ids) ==
    IF ids = {} THEN <<>>
    ELSE LET least == CHOOSE x \in ids : \A y \in ids : x <= y
         IN <<least>> \o Ascending(ids \ {least})

\* Number of dependency ids declared so far in the session.
RECURSIVE DeclaredDeps(_, _)
DeclaredDeps(ts, ids) ==
    IF ids = {} THEN 0
    ELSE LET t == CHOOSE x \in ids : TRUE
         IN Cardinality(ts[t].dependencies) + DeclaredDeps(ts, ids \ {t})

\* ------------------------------------------------- _find_ready_tasks
\* completed_task_ids = {task.task_id for task in self.completed_tasks}
CompletedTaskIds(completed) == Range(completed)

\* Variant: any() in place of all().
DepsSatisfiedAny(deps, completed_task_ids) ==
    deps = {} \/ deps \cap completed_task_ids # {}

\* Variant: ids that name no task of the session are skipped.
DepsSatisfiedKnown(deps, completed_task_ids) ==
    (deps \cap DOMAIN tasks) \subseteq completed_task_ids

\* all(dep_id in completed_task_ids for dep_id in task.dependencies)
DepsSatisfied(deps, completed_task_ids) == deps \subseteq completed_task_ids

\* Variant: a task's own id in its dependency list is passed over.
IsReadyIgnoreSelf(ts, completed, t) ==
    /\ ts[t].status = PENDING
    /\ DepsSatisfied(ts[t].dependencies \ {t}, CompletedTaskIds(completed))

\* Variant: the status of the queue entry is not looked at.
IsReadyAnyStatus(ts, completed, t) ==
    DepsSatisfied(ts[t].dependencies, CompletedTaskIds(completed))

\* The test of one queue entry in the scan.
IsReady(ts, completed, t) ==
    /\ ts[t].status = PENDING
    /\ DepsSatisfied(ts[t].dependencies, CompletedTaskIds(completed))

\* Variant: the scan stops at the first ready task.
FindReadyTasksFirst(ts, queue, completed) ==
    LET ready == SelectSeq(queue, LAMBDA t : IsReady(ts, completed, t))
    IN IF ready = <<>> THEN [ready |-> <<>>, queue |-> queue]
       ELSE [ready |-> <<Head(ready)>>,
             queue |-> SelectSeq(queue, LAMBDA t : t # Head(ready))]

\* Variant: remove leaves the list as it is.
RemoveNothing(queue, t) == queue

\* list.remove(x): the list without the first entry equal to x.
RECURSIVE Remove(_, _)
Remove(queue, t) ==
    IF queue = <<>> THEN <<>>
    ELSE IF Head(queue) = t THEN Tail(queue)
    ELSE <<Head(queue)>> \o Remove(Tail(queue), t)

\* for task in self.task_queue[:] : the loop over the copy, from its entry i,
\* with the ready list and the queue as they are before that entry.
RECURSIVE ScanQueue(_, _, _, _, _, _)
ScanQueue(ts, copy, i, ready, queue, completed) ==
    IF i > Len(copy) THEN [ready |-> ready, queue |-> queue]
    ELSE IF IsReady(ts, completed, copy[i])
         THEN ScanQueue(ts, copy, i + 1, Append(ready, copy[i]),
                        Remove(queue, copy[i]), completed)
         ELSE ScanQueue(ts, copy, i + 1, ready, queue, completed)

\* Variant: the scan without self.task_queue.remove(task).
FindReadyTasksKeep(ts, queue, completed) ==
    [ready |-> ScanQueue(ts, queue, 1, <<>>, queue, completed).ready,
     queue |-> queue]

\* _find_ready_tasks: the list it returns and the queue it leaves.
FindReadyTasks(ts, queue, completed) ==
    ScanQueue(ts, queue, 1, <<>>, queue, completed)

\* ------------------------------------------------- _handle_task_error
\* Variant: every failed attempt is retried.
ShouldRetryAlways(retry_count, max_retry_attempts) == TRUE

\* if task.retry_count < task.max_retry_attempts (after the increment)
ShouldRetry(retry_count, max_retry_attempts) == retry_count < max_retry_attempts

\* Variant: the increment of retry_count is lost.
HandleTaskErrorNoCount(task, error) ==
    [task EXCEPT !.error_log = Append(@, error),
                 !.status = IF ShouldRetry(task.retry_count, task.max_retry_attempts)
                            THEN PENDING ELSE FAILED]

\* Variant: the error is not appended to error_log.
HandleTaskErrorNoLog(task, error) ==
    LET rc == task.retry_count + 1
    IN [task EXCEPT !.retry_count = rc,
                    !.status = IF ShouldRetry(rc, task.max_retry_attempts)
                               THEN PENDING ELSE FAILED]

\* Variant: a task that is re-queued keeps the status in_progress.
HandleTaskErrorKeepStatus(task, error) ==
    LET rc == task.retry_count + 1
    IN [task EXCEPT !.error_log = Append(@, error),
                    !.retry_count = rc,
                    !.status = IF ShouldRetry(rc, task.max_retry_attempts)
                               THEN IN_PROGRESS ELSE FAILED]

\* Variant: a task out of retries is parked as blocked.
HandleTaskErrorBlocked(task, error) ==
    LET rc == task.retry_count + 1
    IN [task EXCEPT !.error_log = Append(@, error),
                    !.retry_count = rc,
                    !.status = IF ShouldRetry(rc, task.max_retry_attempts)
                               THEN PENDING ELSE BLOCKED]

\* The task object after _handle_task_error; `error` is the logged string.
HandleTaskError(task, error) ==
    LET rc == task.retry_count + 1
    IN [task EXCEPT !.error_log = Append(@, error),
                    !.retry_count = rc,
                    !.status = IF ShouldRetry(rc, task.max_retry_attempts)
                               THEN PENDING ELSE FAILED]

\* ------------------------------------------------- _check_task_completion
\* Variant: failed tasks are not taken for finished.
IsFinishedOnlyCompleted(ts, t) == ts[t].status = COMPLETED

\* if task.status in [TaskStatus.COMPLETED, TaskStatus.FAILED]
IsFinished(ts, t) == ts[t].status \in {COMPLETED, FAILED}

\* Variant: the completed history is overwritten with the tasks that finished
\* in this tick.
CheckTaskCompletionReset(ts, active, completed) ==
    [completed |-> SelectSeq(active, LAMBDA t : ts[t].status \in {COMPLETED, FAILED}),
     active |-> SelectSeq(active, LAMBDA t : ts[t].status \notin {COMPLETED, FAILED})]

\* Variant: the finished tasks are not deleted from the active dict.
CheckTaskCompletionKeepActive(ts, active, completed) ==
    [completed |-> completed \o SelectSeq(active, LAMBDA t : IsFinished(ts, t)),
     active |-> active]

\* Finished tasks of the active dict are appended to the completed history in
\* dict order and deleted from the dict.
CheckTaskCompletion(ts, active, completed) ==
    [completed |-> completed \o SelectSeq(active, LAMBDA t : IsFinished(ts, t)),
     active |-> SelectSeq(active, LAMBDA t : ~IsFinished(ts, t))]

\* self.active_tasks[task.task_id] = task : a key already present keeps its place.
ActivePut(active, t) == IF t \in Range(active) THEN active ELSE Append(active, t)

\* ------------------------------------------------- reports
CountStatus(ts, s, st) == Len(SelectSeq(s, LAMBDA t : ts[t].status = st))

\* _determine_current_phase, with q, a, c the sizes of queue, active dict and
\* completed history: c < q + a + c*0.5 and c < q + a + c*0.75.
DetermineCurrentPhase(q, a, c) ==
    IF c = 0 THEN "Discovery & Planning"
    ELSE IF 2 * c < 2 * q + 2 * a + c THEN "Core Implementation"
    ELSE IF 4 * c < 4 * q + 4 * a + 3 * c THEN "Validation & Security"
    ELSE "Integration & Completion"

\* [task.error_log[-1] for task in self.completed_tasks if task.error_log]
RECURSIVE IssuesEncountered(_, _)
IssuesEncountered(ts, completed) ==
    IF completed = <<>> THEN <<>>
    ELSE LET t == Head(completed)
             rest == IssuesEncountered(ts, Tail(completed))
         IN IF ts[t].error_log # <<>>
            THEN <<ts[t].error_log[Len(ts[t].error_log)]>> \o rest
            ELSE rest

\* Python floats are IEEE 754 binary64: a significand of 53 bits.  A positive
\* float is kept as [bits, exp]: bits is the significand, most significant bit
\* first (always 1), and the value is 1.b2 b3 ... b53 (binary) times 2^exp.
SignificandBits == 53

RECURSIVE Pow2(_)
Pow2(k) == IF k = 0 THEN 1 ELSE 2 * Pow2(k - 1)

Zeros(n) == [i \in 1..n |-> 0]

\* The first n base-256 digits of the expansion of r / d for 0 <= r < d, with
\* the remainder left after them.
RECURSIVE ExpandFraction(_, _, _)
ExpandFraction(r, d, n) ==
    IF n = 0 THEN [digits |-> <<>>, rem |-> r]
    ELSE LET rest == ExpandFraction((256 * r) % d, d, n - 1)
         IN [digits |-> <<(256 * r) \div d>> \o rest.digits, rem |-> rest.rem]

\* The bits of a string of base-256 digits.
DigitBits(digits) ==
    [i \in 1..(8 * Len(digits)) |->
        (digits[((i - 1) \div 8) + 1] \div Pow2(7 - ((i - 1) % 8))) % 2]

\* bits + 1; the result is one bit longer when every bit was 1.
Increment(bits) ==
    IF \A i \in 1..Len(bits) : bits[i] = 1
    THEN <<1>> \o Zeros(Len(bits))
    ELSE LET p == CHOOSE i \in 1..Len(bits) :
                      bits[i] = 0 /\ \A j \in (i + 1)..Len(bits) : bits[j] = 1
         IN [i \in 1..Len(bits) |-> IF i < p THEN bits[i] ELSE IF i = p THEN 1 ELSE 0]

\* a + b for two bit strings of the same length whose sum does not carry out:
\* position i receives a carry when a lower position generates one and every
\* position between passes it on.
AddBits(a, b) ==
    LET n == Len(a)
        carry(i) == \E j \in (i + 1)..n :
                        /\ a[j] + b[j] = 2
                        /\ \A k \in (i + 1)..(j - 1) : a[k] + b[k] = 1
    IN [i \in 1..n |-> (a[i] + b[i] + (IF carry(i) THEN 1 ELSE 0)) % 2]

\* Round a bit string that starts with 1, whose first bit has weight 2^exp, to
\* a float: round to nearest, ties to even.  sticky tells that the exact value
\* has nonzero bits beyond the string.
RoundToFloat(bits, exp, sticky) ==
    LET kept == SubSeq(bits, 1, SignificandBits)
        dropped == SubSeq(bits, SignificandBits + 1, Len(bits))
        beyond == sticky \/ \E i \in 2..Len(dropped) : dropped[i] = 1
        up == /\ dropped # <<>>
              /\ dropped[1] = 1
              /\ (beyond \/ kept[SignificandBits] = 1)
        rounded == IF up THEN Increment(kept) ELSE kept
    IN IF Len(rounded) > SignificandBits
       THEN [bits |-> SubSeq(rounded, 1, SignificandBits), exp |-> exp + 1]
       ELSE [bits |-> rounded, exp |-> exp]

\* The least k with n * 2^k >= d, for 0 < n <= d.
RECURSIVE ShiftsToReach(_, _)
ShiftsToReach(n, d) == IF n >= d THEN 0 ELSE 1 + ShiftsToReach(2 * n, d)

\* completed / total in Python for 0 < completed <= total: the quotient
\* rounded to a float.
TrueDivide(completed, total) ==
    LET k == ShiftsToReach(completed, total)
        more == ExpandFraction(completed * Pow2(k) - total, total, 7)
    IN RoundToFloat(<<1>> \o DigitBits(more.digits), -k, more.rem > 0)

\* x * 100 in Python for a positive float x: the exact product
\* 64 x + 32 x + 4 x, rounded to a float.
TimesHundred(x) ==
    LET product == AddBits(AddBits(<<0>> \o x.bits \o Zeros(6),
                                   <<0, 0>> \o x.bits \o Zeros(5)),
                           Zeros(5) \o x.bits \o Zeros(2))
        lead == CHOOSE i \in 1..Len(product) :
                    product[i] = 1 /\ \A j \in 1..(i - 1) : product[j] = 0
        digits == SubSeq(product, lead, Len(product))
    IN RoundToFloat(digits, x.exp + Len(digits) - SignificandBits, FALSE)

RECURSIVE BitsToNat(_)
BitsToNat(bits) ==
    IF bits = <<>> THEN 0
    ELSE 2 * BitsToNat(SubSeq(bits, 1, Len(bits) - 1)) + bits[Len(bits)]

\* bits without the zeros at its end.
DropTrailingZeros(bits) ==
    IF \A i \in 1..Len(bits) : bits[i] = 0 THEN <<>>
    ELSE SubSeq(bits, 1, CHOOSE i \in 1..Len(bits) :
                             bits[i] = 1 /\ \A j \in (i + 1)..Len(bits) : bits[j] = 0)

\* A float below 2^31 as its integer part and the bits of its fractional part
\* (binary places after the point, trailing zeros dropped).
WholeAndFraction(x) ==
    IF x.exp >= 0
    THEN [whole |-> BitsToNat(SubSeq(x.bits, 1, x.exp + 1)),
          fraction |-> DropTrailingZeros(SubSeq(x.bits, x.exp + 2, SignificandBits))]
    ELSE [whole |-> 0,
          fraction |-> DropTrailingZeros(Zeros(-x.exp - 1) \o x.bits)]

\* The number n (an int, or the float of the same value).
Whole(n) == [whole |-> n, fraction |-> <<>>]

\* The largest total_tasks of a run: a task under retry is counted in the
\* queue and in the active dict.
MaxTotal == 2 * NumTasks

\* completed / total * 100 as Python computes it, for 0 < completed <= total:
\* the division is rounded to a float, then the product is rounded.
QuotientTimesHundred(completed, total) ==
    WholeAndFraction(TimesHundred(TrueDivide(completed, total)))

\* The values of QuotientTimesHundred for the totals of a run.
ProgressTable ==
    [total \in 1..MaxTotal |->
        [completed \in 1..total |-> QuotientTimesHundred(completed, total)]]

\* overall_progress = (completed / total * 100) if total > 0 else 0
OverallProgress(completed, total) ==
    IF total > 0 /\ completed > 0
    THEN IF total <= MaxTotal
         THEN ProgressTable[total][completed]
         ELSE QuotientTimesHundred(completed, total)
    ELSE Whole(0)

\* _determine_next_actions: "Execute <description>" for the first three tasks
\* of the queue, else "Complete <description>" for the active tasks, else the
\* two closing actions; a description is stood for by the task's id.
DetermineNextActions(queue, active) ==
    IF queue # <<>>
    THEN [i \in 1..(IF Len(queue) < 3 THEN Len(queue) ELSE 3) |-> <<"Execute", queue[i]>>]
    ELSE IF active # <<>>
    THEN [i \in 1..Len(active) |-> <<"Complete", active[i]>>]
    ELSE <<"Generate final deliverables", "Prepare orchestrator handoff">>

\* _generate_progress_report: the fields computed from the task collection.
GenerateProgressReport(ts, queue, active, completed) ==
    LET total == Len(queue) + Len(active) + Len(completed)
        done == CountStatus(ts, completed, COMPLETED)
    IN [kind |-> "progress",
        total_tasks |-> total,
        completed_tasks |-> done,
        failed_tasks |-> CountStatus(ts, completed, FAILED),
        blocked_tasks |-> CountStatus(ts, active, BLOCKED),
        overall_progress |-> OverallProgress(done, total),
        current_phase |-> DetermineCurrentPhase(Len(queue), Len(active), Len(completed)),
        next_actions |-> DetermineNextActions(queue, active),
        issues_encountered |-> IssuesEncountered(ts, completed)]

\* Variant: the final report always shows full progress.
GenerateFinalReportFullProgress(ts, queue, active, completed) ==
    [GenerateProgressReport(ts, queue, active, completed)
        EXCEPT !.kind = "final",
               !.overall_progress = Whole(100),
               !.current_phase = "Completed",
               !.next_actions = <<"Review deliverables", "Validate results",
                                  "Plan next iteration">>]

\* Variant: the final report keeps the phase label of the progress report.
GenerateFinalReportKeepPhase(ts, queue, active, completed) ==
    [GenerateProgressReport(ts, queue, active, completed) EXCEPT !.kind = "final"]

\* _generate_final_report: a progress report with current_phase and
\* next_actions overwritten.
GenerateFinalReport(ts, queue, active, completed) ==
    [GenerateProgressReport(ts, queue, active, completed)
        EXCEPT !.kind = "final",
               !.current_phase = "Completed",
               !.next_actions = <<"Review deliverables", "Validate results",
                                  "Plan next iteration">>]

\* ------------------------------------------------- _notify_orchestrator
\* What an observer callback does when it is called with a report: it returns,
\* raises an Exception, raises a BaseException that is no Exception (such as
\* KeyboardInterrupt), calls add_tasks of the manager with one new task and
\* returns, or registers one more observer and returns.
CallbackBehaviours == {"raise", "interrupt", "add_tasks", "register"}

\* An observer callback is modelled by the kinds of report on which it does
\* something else than return, and by what it does then.
CallbackKinds ==
    {[on |-> {}, does |-> "return"]} \cup
    {[on |-> k, does |-> d] : k \in (SUBSET {"progress", "final"}) \ {{}},
                             d \in CallbackBehaviours}

\* The observer that a callback registers: one that always returns.
PlainCallback == [on |-> {}, does |-> "return"]

\* What callback(report) does.
Behaviour(callback, report) ==
    IF report.kind \in callback.on THEN callback.does ELSE "return"

\* callback(report) raises an Exception.
Raises(callback, report) == Behaviour(callback, report) = "raise"

\* One iteration of the for loop of _notify_orchestrator: try: callback(report)
\* except Exception: log.  The call returns, or its exception is caught and
\* logged, or its exception is no Exception and leaves _notify_orchestrator.
NotifyOrchestrator(callback, report) ==
    IF Behaviour(callback, report) = "raise" THEN "caught"
    ELSE IF Behaviour(callback, report) = "interrupt" THEN "propagates"
    ELSE "returned"

\* ------------------------------------------------- start_autonomous_execution
\* Variant: a progress report at the end of every iteration.
MadeProgressAlways(ready) == TRUE

\* if ready_tasks:  (only report if we made progress)
MadeProgress(ready) == ready # <<>>

\* ---------------------------------------------------------------- Init
Init ==
    /\ tasks = <<>>
    /\ task_queue = <<>>
    /\ active_tasks = <<>>
    /\ completed_tasks = <<>>
    /\ ready_tasks = <<>>
    /\ idx = 1
    /\ pc = "idle"
    /\ reports = <<>>
    /\ orchestrator_callbacks = <<>>
    /\ execution_log = <<>>
    /\ notified = <<>>
    /\ callback_pos = 0
    /\ previous_ready = <<>>
    /\ tick = 0
    /\ attempts = [t \in TaskIds |-> 0]
    /\ finished_tick = [t \in TaskIds |-> 0]

\* ------------------------------------------------------------- actions
\* add_tasks([task]) before the run: the next task object is appended to the queue.
\* The tasks of one session share their max_retry_attempts, as the tasks that
\* create_task_plan builds do (it leaves the field at its default).
AddTask ==
    /\ pc = "idle"
    /\ Len(task_queue) < NumTasks
    /\ \E deps \in SUBSET DepIds, max \in 0..MaxRetry :
        LET id == Len(task_queue) + 1
        IN /\ DeclaredDeps(tasks, DOMAIN tasks) + Cardinality(deps) <= MaxDeps
           /\ \A t \in DOMAIN tasks : tasks[t].max_retry_attempts = max
           /\ tasks' = tasks @@ (id :> AutonomousTask(id, deps, max))
           /\ task_queue' = Append(task_queue, id)
           /\ execution_log' = Append(execution_log, <<"task_added", id>>)
    /\ UNCHANGED <<active_tasks, completed_tasks, ready_tasks, idx, pc, reports,
                   observer_vars, previous_ready, tick, attempts, finished_tick>>

\* add_tasks(create_task_plan(...)) before the run, task by task: the plan's
\* next task depends on the task before it (_extract_dependencies) and has the
\* default max_retry_attempts.
AddPlannedTask ==
    /\ pc = "idle"
    /\ Len(task_queue) < NumTasks
    /\ LET id == Len(task_queue) + 1
           deps == IF id > 1 THEN {id - 1} ELSE {}
       IN /\ tasks' = tasks @@ (id :> AutonomousTask(id, deps, DefaultMaxRetryAttempts))
          /\ task_queue' = Append(task_queue, id)
          /\ execution_log' = Append(execution_log, <<"task_added", id>>)
    /\ UNCHANGED <<active_tasks, completed_tasks, ready_tasks, idx, pc, reports,
                   observer_vars, previous_ready, tick, attempts, finished_tick>>

\* add_tasks([task]) before the run, for a task object constructed with any
\* status (status is a required field of the dataclass; add_tasks appends the
\* object as it is).
AddTaskWithStatus ==
    /\ pc = "idle"
    /\ Len(task_queue) < NumTasks
    /\ \E deps \in SUBSET DepIds, status \in TaskStatus :
        LET id == Len(task_queue) + 1
        IN /\ DeclaredDeps(tasks, DOMAIN tasks) + Cardinality(deps) <= MaxDeps
           /\ tasks' = tasks @@ (id :> [AutonomousTask(id, deps, DefaultMaxRetryAttempts)
                                           EXCEPT !.status = status])
           /\ task_queue' = Append(task_queue, id)
           /\ execution_log' = Append(execution_log, <<"task_added", id>>)
    /\ UNCHANGED <<active_tasks, completed_tasks, ready_tasks, idx, pc, reports,
                   observer_vars, previous_ready, tick, attempts, finished_tick>>

\* register_orchestrator_callback(callback) before the run.
RegisterOrchestratorCallback ==
    /\ pc = "idle"
    /\ Len(orchestrator_callbacks) < MaxCallbacks
    /\ \E callback \in CallbackKinds :
          orchestrator_callbacks' = Append(orchestrator_callbacks, callback)
    /\ UNCHANGED <<tasks, task_queue, active_tasks, completed_tasks, ready_tasks,
                   idx, pc, reports, callback_pos, execution_log, notified,
                   previous_ready, tick, attempts, finished_tick>>

\* start_autonomous_execution is called.
StartAutonomousExecution ==
    /\ pc = "idle"
    /\ pc' = "loop"
    /\ execution_log' = Append(execution_log, <<"execution_started", Len(task_queue)>>)
    /\ UNCHANGED <<tasks, task_queue, active_tasks, completed_tasks, ready_tasks,
                   idx, reports, observer_vars, previous_ready, tick, attempts,
                   finished_tick>>

\* while self.task_queue or self.active_tasks
LoopTest ==
    /\ pc = "loop"
    /\ IF task_queue # <<>> \/ active_tasks # <<>>
       THEN pc' = "find"
       ELSE pc' = "final"
    /\ UNCHANGED <<tasks, task_queue, active_tasks, completed_tasks, ready_tasks,
                   idx, reports, observer_vars, execution_log, previous_ready, tick,
                   attempts, finished_tick>>

\* ready_tasks = self._find_ready_tasks()
\* An iteration that finds no ready task changes nothing, so every iteration
\* after it finds none either: the iterations that execute a task are the
\* first ones of the run, and `tick` numbers them as the loop does.
FindReady ==
    /\ pc = "find"
    /\ LET r == FindReadyTasks(tasks, task_queue, completed_tasks)
       IN /\ ready_tasks' = r.ready
          /\ task_queue' = r.queue
          /\ tick' = IF r.ready # <<>> THEN tick + 1 ELSE tick
    /\ idx' = 1
    /\ pc' = "execute"
    /\ UNCHANGED <<tasks, active_tasks, completed_tasks, reports, observer_vars,
                   execution_log, previous_ready, attempts, finished_tick>>

\* for task in ready_tasks: _execute_task(task), up to the try block: the task
\* is marked in progress and put into the active dict.  After the last ready
\* task the loop goes on to _check_task_completion.
ExecuteTask ==
    /\ pc = "execute"
    /\ IF idx <= Len(ready_tasks)
       THEN LET t == ready_tasks[idx]
            IN /\ tasks' = [tasks EXCEPT ![t].status = IN_PROGRESS]
               /\ active_tasks' = ActivePut(active_tasks, t)
               /\ attempts' = [attempts EXCEPT ![t] = @ + 1]
               /\ execution_log' = Append(execution_log, <<"task_started", t>>)
               /\ pc' = "work"
       ELSE /\ pc' = "check"
            /\ UNCHANGED <<tasks, active_tasks, attempts, execution_log>>
    /\ UNCHANGED <<task_queue, completed_tasks, ready_tasks, idx, reports,
                   observer_vars, previous_ready, tick, finished_tick>>

\* The try block runs to its end: the task is completed.
WorkSucceeds ==
    /\ pc = "work"
    /\ LET t == ready_tasks[idx]
       IN /\ tasks' = [tasks EXCEPT ![t].status = COMPLETED]
          /\ finished_tick' = [finished_tick EXCEPT ![t] = tick]
          /\ execution_log' = Append(execution_log, <<"task_completed", t>>)
    /\ idx' = idx + 1
    /\ pc' = "execute"
    /\ UNCHANGED <<task_queue, active_tasks, completed_tasks, ready_tasks, reports,
                   observer_vars, previous_ready, tick, attempts>>

\* The try block raises: _handle_task_error.  The logged error is identified
\* by the task and the number of the attempt that raised.
WorkRaises ==
    /\ pc = "work"
    /\ LET t == ready_tasks[idx]
           after == HandleTaskError(tasks[t], <<t, attempts[t]>>)
       IN /\ tasks' = [tasks EXCEPT ![t] = after]
          /\ task_queue' = IF after.status = PENDING
                           THEN Append(task_queue, t) ELSE task_queue
          /\ finished_tick' = IF after.status = FAILED
                              THEN [finished_tick EXCEPT ![t] = tick]
                              ELSE finished_tick
          /\ execution_log' = Append(execution_log,
                 <<IF after.status = PENDING THEN "task_retry" ELSE "task_failed", t>>)
    /\ idx' = idx + 1
    /\ pc' = "execute"
    /\ UNCHANGED <<active_tasks, completed_tasks, ready_tasks, reports, observer_vars,
                   previous_ready, tick, attempts>>

\* self._check_task_completion()
CheckCompletion ==
    /\ pc = "check"
    /\ LET r == CheckTaskCompletion(tasks, active_tasks, completed_tasks)
       IN /\ completed_tasks' = r.completed
          /\ active_tasks' = r.active
    /\ pc' = "report"
    /\ UNCHANGED <<tasks, task_queue, ready_tasks, idx, reports, observer_vars,
                   execution_log, previous_ready, tick, attempts, finished_tick>>

\* if ready_tasks: report = _generate_progress_report(); _notify_orchestrator(report)
\* followed by time.sleep(1).  With no observer registered the for loop of
\* _notify_orchestrator has no iteration; with observers the runner enters it.
ReportProgress ==
    /\ pc = "report"
    /\ IF MadeProgress(ready_tasks)
       THEN /\ reports' = Append(reports, GenerateProgressReport(
                               tasks, task_queue, active_tasks, completed_tasks))
            /\ IF orchestrator_callbacks = <<>>
               THEN pc' = "loop" /\ UNCHANGED callback_pos
               ELSE pc' = "notify" /\ callback_pos' = 1
       ELSE /\ pc' = "loop"
            /\ UNCHANGED <<reports, callback_pos>>
    /\ UNCHANGED <<tasks, task_queue, active_tasks, completed_tasks, ready_tasks,
                   idx, orchestrator_callbacks, execution_log, notified,
                   previous_ready, tick, attempts, finished_tick>>

\* After the loop: the final report is generated, notified and returned.
FinalReport ==
    /\ pc = "final"
    /\ reports' = Append(reports, GenerateFinalReport(
                        tasks, task_queue, active_tasks, completed_tasks))
    /\ IF orchestrator_callbacks = <<>>
       THEN pc' = "done" /\ UNCHANGED callback_pos
       ELSE pc' = "notify_final" /\ callback_pos' = 1
    /\ UNCHANGED <<tasks, task_queue, active_tasks, completed_tasks, ready_tasks,
                   idx, orchestrator_callbacks, execution_log, notified,
                   previous_ready, tick, attempts, finished_tick>>

\* One iteration of for callback in self.orchestrator_callbacks: the callback
\* at callback_pos is called with the report and does what it does.  A callback
\* that adds a task or registers an observer does so through the manager's
\* add_tasks and register_orchestrator_callback, while the session has room
\* for one.  The list iterator goes on while the list, as it is after the
\* call, has a next element; after the last one the runner sleeps and loops,
\* or returns the final report.  A BaseException leaves
\* start_autonomous_execution.
CallCallback ==
    /\ pc \in {"notify", "notify_final"}
    /\ LET i == callback_pos
           n == Len(reports)
           does == Behaviour(orchestrator_callbacks[i], reports[n])
           outcome == NotifyOrchestrator(orchestrator_callbacks[i], reports[n])
           id == Cardinality(DOMAIN tasks) + 1
           adds == does = "add_tasks" /\ Cardinality(DOMAIN tasks) < NumTasks
           registers == does = "register" /\ Len(orchestrator_callbacks) < MaxCallbacks
       IN /\ notified' = Append(notified, <<i, n>>)
          /\ IF adds
             THEN /\ tasks' = tasks @@ (id :> AutonomousTask(id, {}, DefaultMaxRetryAttempts))
                  /\ task_queue' = Append(task_queue, id)
             ELSE UNCHANGED <<tasks, task_queue>>
          /\ orchestrator_callbacks' =
                 IF registers THEN Append(orchestrator_callbacks, PlainCallback)
                 ELSE orchestrator_callbacks
          /\ execution_log' =
                 IF adds THEN Append(execution_log, <<"task_added", id>>)
                 ELSE IF outcome = "caught"
                 THEN Append(execution_log, <<"orchestrator_notification_failed", i>>)
                 ELSE execution_log
          /\ IF outcome = "propagates"
             THEN pc' = "aborted" /\ callback_pos' = 0
             ELSE IF i < Len(orchestrator_callbacks')
             THEN pc' = pc /\ callback_pos' = i + 1
             ELSE /\ pc' = IF pc = "notify" THEN "loop" ELSE "done"
                  /\ callback_pos' = 0
    /\ UNCHANGED <<active_tasks, completed_tasks, ready_tasks, idx, reports,
                   previous_ready, tick, attempts, finished_tick>>

\* The steps of start_autonomous_execution once it has been called.
RunnerStep ==
    \/ LoopTest
    \/ FindReady
    \/ ExecuteTask
    \/ WorkSucceeds
    \/ WorkRaises
    \/ CheckCompletion
    \/ ReportProgress
    \/ FinalReport

Next ==
    \/ AddTask
    \/ StartAutonomousExecution
    \/ LoopTest
    \/ FindReady
    \/ ExecuteTask
    \/ WorkSucceeds
    \/ WorkRaises
    \/ CheckCompletion
    \/ ReportProgress
    \/ FinalReport

Spec == Init /\ [][Next]_vars

\* The runner is a sequential program that keeps running once called.
FairSpec == Spec /\ WF_vars(RunnerStep)

\* Sessions with observers, as project_manager_script runs them: callbacks are
\* registered, the tasks of a plan are added, and the runner is started.
NextObservers ==
    \/ RegisterOrchestratorCallback
    \/ AddPlannedTask
    \/ StartAutonomousExecution
    \/ LoopTest
    \/ FindReady
    \/ ExecuteTask
    \/ WorkSucceeds
    \/ WorkRaises
    \/ CheckCompletion
    \/ ReportProgress
    \/ CallCallback
    \/ FinalReport

SpecObservers == Init /\ [][NextObservers]_vars

\* The steps of a run with observers: those of the runner and the calls of the
\* observers, which return.
RunnerStepObservers == RunnerStep \/ CallCallback

FairSpecObservers == SpecObservers /\ WF_vars(RunnerStepObservers)

\* Sessions whose caller constructs the task objects itself.
NextEnqueue ==
    \/ AddTaskWithStatus
    \/ StartAutonomousExecution
    \/ LoopTest
    \/ FindReady
    \/ ExecuteTask
    \/ WorkSucceeds
    \/ WorkRaises
    \/ CheckCompletion
    \/ ReportProgress
    \/ FinalReport

SpecEnqueue == Init /\ [][NextEnqueue]_vars

\* ------------------------------------------------- _find_ready_tasks alone
\* The pending queues: lists of different tasks.
Queues ==
    {q \in UNION {[1..k -> TaskIds] : k \in 0..NumTasks} : NoDuplicates(q)}

\* A manager before a call of _find_ready_tasks: a queue of tasks with status
\* pending or blocked and any dependency lists, and a completed history of
\* other tasks.
InitScan ==
    /\ \E queue \in Queues :
       \E done \in SUBSET (TaskIds \ Range(queue)) :
       \E deps \in [Range(queue) -> SUBSET DepIds] :
       \E status \in [Range(queue) -> {PENDING, BLOCKED}] :
          LET ts == [t \in Range(queue) \cup done |->
                       IF t \in done
                       THEN [AutonomousTask(t, {}, DefaultMaxRetryAttempts)
                                EXCEPT !.status = COMPLETED]
                       ELSE [AutonomousTask(t, deps[t], DefaultMaxRetryAttempts)
                                EXCEPT !.status = status[t]]]
          IN /\ DeclaredDeps(ts, DOMAIN ts) <= MaxDeps
             /\ tasks = ts
             /\ task_queue = queue
             /\ completed_tasks = Ascending(done)
    /\ active_tasks = <<>>
    /\ ready_tasks = <<>>
    /\ idx = 1
    /\ pc = "scan"
    /\ reports = <<>>
    /\ orchestrator_callbacks = <<>>
    /\ execution_log = <<>>
    /\ notified = <<>>
    /\ callback_pos = 0
    /\ previous_ready = <<>>
    /\ tick = 0
    /\ attempts = [t \in TaskIds |-> 0]
    /\ finished_tick = [t \in TaskIds |-> 0]

\* ready_tasks = self._find_ready_tasks(), called directly: first call at
\* "scan", a second call right after it at "rescan".
FindReadyTasksCall ==
    /\ pc \in {"scan", "rescan"}
    /\ LET r == FindReadyTasks(tasks, task_queue, completed_tasks)
       IN /\ ready_tasks' = r.ready
          /\ task_queue' = r.queue
    /\ previous_ready' = ready_tasks
    /\ pc' = IF pc = "scan" THEN "rescan" ELSE "scanned"
    /\ UNCHANGED <<tasks, active_tasks, completed_tasks, idx, reports, observer_vars,
                   execution_log, tick, attempts, finished_tick>>

NextScan == FindReadyTasksCall

SpecScan == InitScan /\ [][NextScan]_vars

\* ---------------------------------------------------------------- claims
\* Every attempt of task t so far has raised (each raise logs one error).
AlwaysRaised(t) == attempts[t] > 0 /\ Len(tasks[t].error_log) = attempts[t]

\* Task t changes its status in this step.
StatusChange(t, from, to) ==
    /\ t \in DOMAIN tasks
    /\ tasks[t].status = from
    /\ tasks'[t].status = to

\* C1: a task's status becomes in_progress only in _execute_task of a task the
\* readiness scan of this tick returned, and then every id in its dependencies
\* is the task_id of a task in the completed history (which the tick has not
\* changed since the scan).
C1_StartOnlyAfterDependencies ==
    [][\A t \in DOMAIN tasks :
          (tasks[t].status # IN_PROGRESS /\ tasks'[t].status = IN_PROGRESS)
          => /\ pc = "execute"
             /\ idx <= Len(ready_tasks)
             /\ ready_tasks[idx] = t
             /\ tasks[t].dependencies \subseteq Range(completed_tasks)]_vars

\* C1 witness: a task with two dependencies is in progress, one of its
\* dependencies having failed and the other completed.
C1_Witness ==
    \E t \in DOMAIN tasks :
        /\ tasks[t].status = IN_PROGRESS
        /\ Cardinality(tasks[t].dependencies) = 2
        /\ \E d \in tasks[t].dependencies : tasks[d].status = FAILED
        /\ \E d \in tasks[t].dependencies : tasks[d].status = COMPLETED

\* C2 (as claimed): a task whose work raised on every attempt has status failed
\* exactly when it has been attempted max_retry_attempts + 1 times.
C2_RetryLaw ==
    \A t \in DOMAIN tasks :
        AlwaysRaised(t) =>
            (tasks[t].status = FAILED <=> attempts[t] = tasks[t].max_retry_attempts + 1)

\* C3 (as claimed): while a task is in progress every task named in its
\* dependencies has status completed.
C3_DependenciesCompleted ==
    \A t \in DOMAIN tasks :
        tasks[t].status = IN_PROGRESS =>
            \A d \in tasks[t].dependencies :
                d \in DOMAIN tasks /\ tasks[d].status = COMPLETED

\* C4: every status change of a task is one of the four edges
\*   pending -> in_progress   (its dependencies are in the completed history),
\*   in_progress -> completed (no error logged, retry_count unchanged),
\*   in_progress -> pending   (an error is logged, retry_count grows by one
\*                             and stays below the budget, the task is appended
\*                             to the queue),
\*   in_progress -> failed    (an error is logged and the incremented
\*                             retry_count has reached the budget);
\* completed and failed are never left.
C4_StatusEdges ==
    [][\A t \in DOMAIN tasks :
          tasks'[t].status # tasks[t].status =>
            \/ /\ StatusChange(t, PENDING, IN_PROGRESS)
               /\ tasks[t].dependencies \subseteq Range(completed_tasks)
               /\ tasks'[t].retry_count = tasks[t].retry_count
            \/ /\ StatusChange(t, IN_PROGRESS, COMPLETED)
               /\ tasks'[t].retry_count = tasks[t].retry_count
               /\ tasks'[t].error_log = tasks[t].error_log
            \/ /\ StatusChange(t, IN_PROGRESS, PENDING)
               /\ Len(tasks'[t].error_log) = Len(tasks[t].error_log) + 1
               /\ tasks'[t].retry_count = tasks[t].retry_count + 1
               /\ tasks'[t].retry_count < tasks[t].max_retry_attempts
               /\ task_queue' = Append(task_queue, t)
            \/ /\ StatusChange(t, IN_PROGRESS, FAILED)
               /\ Len(tasks'[t].error_log) = Len(tasks[t].error_log) + 1
               /\ tasks'[t].retry_count >= tasks[t].max_retry_attempts]_vars

\* C4 witness: the run is over, one task completed after a retry and another
\* task failed, so all four edges have been taken.
C4_Witness ==
    /\ pc = "done"
    /\ \E t \in DOMAIN tasks :
          tasks[t].status = COMPLETED /\ tasks[t].retry_count > 0
    /\ \E t \in DOMAIN tasks : tasks[t].status = FAILED

\* The ids reachable from the set S along at most n dependency links.
RECURSIVE ReachableDeps(_, _, _)
ReachableDeps(ts, S, n) ==
    IF n = 0 THEN S
    ELSE ReachableDeps(ts, S \cup UNION {ts[d].dependencies : d \in S \cap DOMAIN ts},
                       n - 1)

TransitiveDeps(ts, t) == ReachableDeps(ts, ts[t].dependencies, Cardinality(DOMAIN ts))

\* Every dependency id names an enqueued task and no task depends on itself,
\* directly or transitively.
WellFormed ==
    \A t \in DOMAIN tasks :
        /\ tasks[t].dependencies \subseteq DOMAIN tasks
        /\ t \notin TransitiveDeps(tasks, t)

\* Task t names a dependency id that no task of the running session has.
Dangling(t) ==
    /\ pc # "idle"
    /\ \E d \in tasks[t].dependencies : d \notin DOMAIN tasks

\* The loop of start_autonomous_execution has exited.
LoopExited == pc \in {"final", "done"}

\* C5: once start_autonomous_execution runs on an acyclic dependency graph
\* whose ids all name enqueued tasks, the loop eventually exits, whatever
\* attempts raise; and the loop has exited only in states where the pending
\* queue and the active set are empty and every enqueued task is in the
\* completed history with status completed or failed.
C5_Termination ==
    /\ (pc = "loop" /\ WellFormed) ~> (pc = "done")
    /\ [](LoopExited =>
            /\ task_queue = <<>>
            /\ active_tasks = <<>>
            /\ \A t \in DOMAIN tasks :
                  /\ t \in Range(completed_tasks)
                  /\ tasks[t].status \in {COMPLETED, FAILED})

\* C5 witness: a run on a chain of dependencies has exited, with a task that
\* failed and a task that completed after a retry.
C5_Witness ==
    /\ pc = "done"
    /\ WellFormed
    /\ \E t \in DOMAIN tasks :
          /\ tasks[t].dependencies # {}
          /\ \E d \in tasks[t].dependencies : tasks[d].dependencies # {}
    /\ \E t \in DOMAIN tasks : tasks[t].status = FAILED
    /\ \E t \in DOMAIN tasks : tasks[t].status = COMPLETED /\ tasks[t].retry_count > 0

\* C6: a task with a dependency id that names no task stays pending and in the
\* pending queue, is never attempted and never moved to the completed history,
\* no report counts a blocked task, and the loop does not exit.
C6_DanglingStaysPending ==
    \A t \in DOMAIN tasks :
        Dangling(t) =>
            /\ tasks[t].status = PENDING
            /\ t \in Range(task_queue)
            /\ attempts[t] = 0
            /\ t \notin Range(completed_tasks) /\ t \notin Range(active_tasks)
            /\ \A i \in 1..Len(reports) :
                  reports[i].kind = "progress" /\ reports[i].blocked_tasks = 0
            /\ ~LoopExited

\* C6 witness: the other tasks have finished and been reported, a task with a
\* dangling dependency is left, and the loop has just made an iteration that
\* found nothing ready.
C6_Witness ==
    /\ pc = "report"
    /\ ready_tasks = <<>>
    /\ Len(reports) >= 2
    /\ \E t \in DOMAIN tasks : Dangling(t)
    /\ \E t \in DOMAIN tasks : tasks[t].status = COMPLETED

\* C7 (as claimed): a run with a task that names a dependency id of no task
\* ends with a reported ConfigurationError.
C7_DeadlockReported ==
    (pc = "loop" /\ \E t \in DOMAIN tasks : Dangling(t)) ~> (pc = "ConfigurationError")

\* completed_tasks + failed_tasks of a report.
Finished(report) == report.completed_tasks + report.failed_tasks

\* C8: over the reports of a session in emission order, the final report
\* included, completed_tasks + failed_tasks of a report is never less than
\* that of the report before it.
C8_ProgressMonotone ==
    \A i \in 1..(Len(reports) - 1) :
        Finished(reports[i]) <= Finished(reports[i + 1])

\* C8 witness: four reports have been emitted, the sum has grown, and the
\* session had a retried attempt and a failed task.
C8_Witness ==
    /\ Len(reports) >= 4
    /\ Finished(reports[1]) < Finished(reports[Len(reports)])
    /\ Finished(reports[1]) = Finished(reports[2])
    /\ reports[Len(reports)].failed_tasks > 0

\* No attempt has raised so far.
AllSucceeded == \A t \in DOMAIN tasks : tasks[t].error_log = <<>>

Max(S) == CHOOSE x \in S : \A y \in S : y <= x

\* With no attempt raising: a finished task finished in the tick after the one
\* in which the last of its dependencies finished (in the first tick when it
\* has none), hence strictly after each of them and together with every other
\* task whose dependencies finished by the same tick.
TicksFollowDependencies ==
    \A t \in DOMAIN tasks :
        finished_tick[t] > 0 =>
            /\ \A d \in tasks[t].dependencies :
                  d \in DOMAIN tasks /\ 0 < finished_tick[d] /\ finished_tick[d] < finished_tick[t]
            /\ finished_tick[t] =
                  1 + Max({0} \cup {finished_tick[d] : d \in tasks[t].dependencies \cap DOMAIN tasks})

\* The counts of the final report when every task completed.
FinalCountsAllCompleted ==
    LET final == reports[Len(reports)]
    IN /\ final.kind = "final"
       /\ final.completed_tasks = Cardinality(DOMAIN tasks)
       /\ final.total_tasks = Cardinality(DOMAIN tasks)
       /\ final.failed_tasks = 0

\* C9 (as claimed): when no attempt raises, tasks finish tick by tick after
\* their dependencies, and the final report shows completed_tasks = total_tasks
\* = number of enqueued tasks, failed_tasks = 0 and overall_progress = 100.
C9_AllSucceedOriginal ==
    AllSucceeded =>
        /\ TicksFollowDependencies
        /\ pc = "done" =>
              /\ FinalCountsAllCompleted
              /\ reports[Len(reports)].overall_progress = Whole(100)

\* C9 (amended): as above, with overall_progress = 100 when at least one task
\* was enqueued and overall_progress = 0 when none was.
C9_AllSucceed ==
    AllSucceeded =>
        /\ TicksFollowDependencies
        /\ pc = "done" =>
              /\ FinalCountsAllCompleted
              /\ reports[Len(reports)].overall_progress =
                    IF DOMAIN tasks = {} THEN Whole(0) ELSE Whole(100)

\* C9 witness: A without dependencies, B and C depending on A; no attempt
\* raised, A finished in tick 1, B and C in tick 2, and the run is over.
C9_Witness ==
    /\ pc = "done"
    /\ AllSucceeded
    /\ DOMAIN tasks = {1, 2, 3}
    /\ tasks[1].dependencies = {} /\ tasks[2].dependencies = {1} /\ tasks[3].dependencies = {1}
    /\ finished_tick = (1 :> 1) @@ (2 :> 2) @@ (3 :> 2)
    /\ reports[Len(reports)].overall_progress = Whole(100)

\* The entries of a report's issues_encountered that come from task t.
IssuesOf(report, t) ==
    Len(SelectSeq(report.issues_encountered, LAMBDA e : e[1] = t))

\* C10 (as claimed): at the end of the run a task whose work raised on every
\* attempt has status failed, was attempted max_retry_attempts + 1 times, and
\* the final report lists one issue for each of these attempts.
C10_FailedAttemptsVisible ==
    pc = "done" =>
        \A t \in DOMAIN tasks :
            AlwaysRaised(t) =>
                /\ tasks[t].status = FAILED
                /\ attempts[t] = tasks[t].max_retry_attempts + 1
                /\ IssuesOf(reports[Len(reports)], t) = tasks[t].max_retry_attempts + 1

\* The last entry of a task's error_log.
LastError(t) == tasks[t].error_log[Len(tasks[t].error_log)]

\* The tick that just ended executed tasks and emitted its progress report.
TickReported == pc = "loop" /\ ready_tasks # <<>>

\* C11 (as claimed): when a tick has emitted its progress report, every task
\* whose attempt raised in that tick (it is pending again for a retry, or failed)
\* has the error of that attempt as the last entry of its error_log, and that
\* error is among the issues_encountered of the report.
C11_FailedAttemptInNextReport ==
    TickReported =>
        \A t \in Range(ready_tasks) :
            tasks[t].status \in {PENDING, FAILED} =>
                /\ tasks[t].error_log # <<>>
                /\ LastError(t) = <<t, attempts[t]>>
                /\ LastError(t) \in Range(reports[Len(reports)].issues_encountered)

\* The labels _determine_current_phase can return.
PhaseLabels == {"Discovery & Planning", "Core Implementation",
                "Validation & Security", "Integration & Completion"}

\* The labels found in the progress reports emitted so far.
ProgressPhases == {reports[i].current_phase :
                       i \in {j \in 1..Len(reports) : reports[j].kind = "progress"}}

\* C13 (as claimed): current_phase of every report, the final one included, is
\* one of the four phase labels.
C13_PhaseIsLabelOriginal ==
    \A i \in 1..Len(reports) : reports[i].current_phase \in PhaseLabels

\* C13 (amended): current_phase of every progress report is one of the four
\* phase labels, and current_phase of the final report is "Completed".
C13_PhaseIsLabel ==
    \A i \in 1..Len(reports) :
        IF reports[i].kind = "final"
        THEN reports[i].current_phase = "Completed"
        ELSE reports[i].current_phase \in PhaseLabels

\* C13 witness: a finished run whose progress reports carried three different
\* labels and whose final report carries "Completed".
C13_Witness ==
    /\ pc = "done"
    /\ Cardinality(ProgressPhases) >= 3
    /\ reports[Len(reports)].kind = "final"
    /\ reports[Len(reports)].current_phase = "Completed"

\* The phase label for a completed history of size c out of total known tasks,
\* with the thresholds at 50% and 75% of total.
PhaseByShare(c, total) ==
    IF c = 0 THEN "Discovery & Planning"
    ELSE IF 2 * c < total THEN "Core Implementation"
    ELSE IF 4 * c < 3 * total THEN "Validation & Security"
    ELSE "Integration & Completion"

\* C14 (as claimed): in every progress report current_phase is the label that
\* the size of the completed history (the completed and the failed tasks) has
\* against 50% and 75% of total_tasks.
C14_PhaseByShare ==
    \A i \in 1..Len(reports) :
        reports[i].kind = "progress" =>
            reports[i].current_phase =
                PhaseByShare(reports[i].completed_tasks + reports[i].failed_tasks,
                             reports[i].total_tasks)

\* C15 (as claimed): the tasks executed in one tick are executed in the order
\* in which they were declared (task ids are given in the order of add_tasks),
\* also when one of them is executed again after a failed attempt.
C15_DeclarationOrder ==
    \A i, j \in 1..Len(ready_tasks) :
        i < j => ready_tasks[i] < ready_tasks[j]

\* C18: in every step, the list the scan returned holds no task twice; when the
\* scan ends none of the tasks it returned is in the pending queue; and a task
\* is attempted only as the current entry of that list, which is no task
\* attempted earlier in the tick, so a task re-enqueued for a retry waits for a
\* later tick.
C18_OncePerTick ==
    [][/\ NoDuplicates(ready_tasks')
       /\ pc = "find" => Range(ready_tasks') \cap Range(task_queue') = {}
       /\ \A t \in DOMAIN tasks :
              attempts'[t] # attempts[t] =>
                  /\ pc = "execute"
                  /\ idx <= Len(ready_tasks)
                  /\ t = ready_tasks[idx]
                  /\ \A k \in 1..(idx - 1) : ready_tasks[k] # t
                  /\ attempts'[t] = attempts[t] + 1
                  /\ attempts'[t] <= tick]_vars

\* C18 witness: tasks 1 and 2 were executed in one tick; the attempt of task 1
\* raised and re-enqueued it before task 2 was executed, and the tick ended
\* with one attempt of each.
C18_Witness ==
    /\ pc = "check"
    /\ ready_tasks = <<1, 2>>
    /\ tasks[1].status = PENDING
    /\ 1 \in Range(task_queue)
    /\ attempts[1] = 1
    /\ attempts[2] = 1

\* C19: whenever a handler has returned, every task whose status is not failed
\* has retry_count <= max_retry_attempts.
C19_RetryBudget ==
    \A t \in DOMAIN tasks :
        tasks[t].status # FAILED =>
            tasks[t].retry_count <= tasks[t].max_retry_attempts

\* C19 witness: one task completed on its last permitted attempt, after a
\* counted failure, and another task used up its budget and failed.
C19_Witness ==
    \E t, u \in DOMAIN tasks :
        /\ tasks[t].status = COMPLETED
        /\ tasks[t].retry_count >= 1
        /\ tasks[t].retry_count = tasks[t].max_retry_attempts - 1
        /\ tasks[u].status = FAILED
        /\ tasks[u].retry_count = tasks[u].max_retry_attempts

\* The number of reports of one kind emitted so far.
CountKind(kind) == Cardinality({i \in 1..Len(reports) : reports[i].kind = kind})

\* An iteration that executes tasks is under way and has not reported yet.
TickUnreported == pc \in {"execute", "work", "check", "report"} /\ ready_tasks # <<>>

\* C20: the progress reports emitted are one for each finished iteration that
\* executed a task (tick counts the iterations whose scan returned a task) and
\* none for the others; no final report is emitted while the loop runs; when
\* start_autonomous_execution has returned, one final report was emitted, it is
\* the last report, and it is the final report of the state the run ended in.
C20_ReportsPerTick ==
    /\ CountKind("progress") = IF TickUnreported THEN tick - 1 ELSE tick
    /\ CountKind("final") = IF pc = "done" THEN 1 ELSE 0
    /\ pc = "done" =>
          /\ reports[Len(reports)].kind = "final"
          /\ reports[Len(reports)] =
                GenerateFinalReport(tasks, task_queue, active_tasks, completed_tasks)

\* C20 witness: two iterations executed tasks and reported, and the iteration
\* after them found no ready task and left the reports at two.
C20_Witness ==
    /\ pc = "loop"
    /\ ready_tasks = <<>>
    /\ task_queue # <<>>
    /\ tick = 2
    /\ Len(reports) = 2

\* callback(report) raises, an Exception or any other BaseException.
RaisesAnything(callback, report) ==
    Behaviour(callback, report) \in {"raise", "interrupt"}

\* The calls callback(report) that raised, in the order they were made.
RaisedCalls ==
    SelectSeq(notified, LAMBDA c :
        RaisesAnything(orchestrator_callbacks[c[1]], reports[c[2]]))

\* The orchestrator_notification_failed events of the execution log, in order.
NotificationFailedEvents ==
    SelectSeq(execution_log, LAMBDA e : e[1] = "orchestrator_notification_failed")

\* The calls made with the n-th report, in the order they were made.
CallsWith(n) == SelectSeq(notified, LAMBDA c : c[2] = n)

\* The runner is inside _notify_orchestrator.
Notifying == pc \in {"notify", "notify_final"}

\* The calls are made report by report, and those made with one report went
\* to the observers at positions 1, 2, ... in that order, each once.
CallsInRegistrationOrder ==
    /\ \A j \in 1..(Len(notified) - 1) : notified[j][2] <= notified[j + 1][2]
    /\ \A n \in 1..Len(reports) :
           \A j \in 1..Len(CallsWith(n)) : CallsWith(n)[j] = <<j, n>>

\* Outside _notify_orchestrator the last report has gone to every registered
\* observer.
LastReportWentToAll ==
    (~Notifying /\ reports # <<>>) =>
        Len(CallsWith(Len(reports))) = Len(orchestrator_callbacks)

\* Each call that raised left one orchestrator_notification_failed event, in
\* the order of the calls, and there is no other such event.
RaisedCallsLogged ==
    /\ Len(NotificationFailedEvents) = Len(RaisedCalls)
    /\ \A j \in 1..Len(RaisedCalls) :
           NotificationFailedEvents[j][2] = RaisedCalls[j][1]

\* Every emitted report went to every observer once and in registration
\* order, and every call that raised left one
\* orchestrator_notification_failed event.
ObserversServed ==
    /\ CallsInRegistrationOrder
    /\ LastReportWentToAll
    /\ RaisedCallsLogged

\* The step is the call of an observer that raises.
RaisingCall ==
    /\ Notifying
    /\ RaisesAnything(orchestrator_callbacks[callback_pos], reports[Len(reports)])

\* The call of an observer that raises changes no task, queue, active set or
\* completed history and does not end the run: the next observer is called
\* with the same report, or the runner is at its next statement.
RaisingCallIsIsolated ==
    RaisingCall =>
        /\ UNCHANGED <<tasks, task_queue, active_tasks, completed_tasks, reports,
                       orchestrator_callbacks>>
        /\ IF callback_pos < Len(orchestrator_callbacks)
           THEN pc' = pc /\ callback_pos' = callback_pos + 1
           ELSE pc' = IF pc = "notify" THEN "loop" ELSE "done"

\* C12: observer isolation.  Each report is passed to every registered observer
\* exactly once in registration order; an observer that raises leaves one
\* orchestrator_notification_failed event and stops neither the later observers
\* nor the runner, which reaches its normal end; no task changes.
C12_ObserverIsolation ==
    /\ []ObserversServed
    /\ [][RaisingCallIsIsolated]_vars
    /\ (pc = "loop" ~> pc = "done")

\* Task t has status pending and all its dependency ids are ids of tasks in the
\* completed history.
PendingWithDepsCompleted(t) ==
    /\ tasks[t].status = PENDING
    /\ \A dep_id \in tasks[t].dependencies :
           \E i \in 1..Len(completed_tasks) : tasks[completed_tasks[i]].task_id = dep_id

\* The queue entries that have this property, and those that have not, each in
\* queue order.
QueueReadyPart == SelectSeq(task_queue, LAMBDA t : PendingWithDepsCompleted(t))
QueueOtherPart == SelectSeq(task_queue, LAMBDA t : ~PendingWithDepsCompleted(t))

\* C16: a call of _find_ready_tasks returns the queue entries that have status
\* pending and all dependency ids in the completed history, in queue order, and
\* leaves the other entries in the queue in their order.
C16_ReadySubsequence ==
    [][(pc = "scan" \/ pc = "rescan") =>
          /\ ready_tasks' = QueueReadyPart
          /\ task_queue' = QueueOtherPart]_vars

\* C16 witness: of the queue 3, 1, 2 the call returned 3 and 2 and left 1,
\* which is pending with a dependency that is not completed.
C16_Witness ==
    /\ pc = "rescan"
    /\ ready_tasks = <<3, 2>>
    /\ task_queue = <<1>>
    /\ tasks[1].status = PENDING
    /\ tasks[1].dependencies # {}

\* C17 (as claimed): the second of two calls in a row returns the list that
\* the first call returned.
C17_SameListTwice ==
    [][pc = "rescan" => ready_tasks' = ready_tasks]_vars

\* C17 (amended): the second of two calls in a row returns the empty list and
\* leaves the queue as the first call left it; it returns the list of the first
\* call only when that list was empty.
C17_SecondCallEmpty ==
    [][pc = "rescan" =>
          /\ ready_tasks' = <<>>
          /\ task_queue' = task_queue
          /\ (ready_tasks' = ready_tasks) = (ready_tasks = <<>>)]_vars

\* C17 witness: the first call returned two tasks and left a blocked one, and
\* the second call returned nothing.
C17_Witness ==
    /\ pc = "scanned"
    /\ Len(previous_ready) = 2
    /\ ready_tasks = <<>>
    /\ Len(task_queue) = 1
    /\ tasks[task_queue[1]].status = BLOCKED

\* The counts and issues of a report.
CountsAndIssues(report) ==
    <<report.total_tasks, report.completed_tasks, report.failed_tasks,
      report.blocked_tasks, report.overall_progress, report.issues_encountered>>

\* The counts, phase, next actions and issues of a report.
CountsPhaseActionsIssues(report) ==
    <<CountsAndIssues(report), report.current_phase, report.next_actions>>

\* A step that generates a report leaves the pending queue, the active set,
\* the completed history and every field of every task as they were.
ReportingKeepsTasks ==
    (reports' # reports) =>
        UNCHANGED <<tasks, task_queue, active_tasks, completed_tasks>>

\* The step generates the final report after a progress report was made: the
\* loop exits right after the tick of its last progress report, so both reports
\* are generated from the same task collection.
FinalAfterProgress == pc = "final" /\ reports # <<>> /\ reports' # reports

\* C21 (as claimed): generating a report changes nothing in the task
\* collection, and two reports generated in the same state, the last progress
\* report and the final report, have the same counts, phase, next_actions and
\* issues_encountered.
C21_ReportingReadOnlyOriginal ==
    [][/\ ReportingKeepsTasks
       /\ FinalAfterProgress =>
              CountsPhaseActionsIssues(reports'[Len(reports')]) =
                  CountsPhaseActionsIssues(reports[Len(reports)])]_vars

\* C21 (amended): generating a report changes nothing in the task collection,
\* and the final report has the counts and issues_encountered of the last
\* progress report, generated in the same state, while its phase is
\* "Completed" and its next_actions are the three closing actions.
C21_ReportingReadOnly ==
    [][/\ ReportingKeepsTasks
       /\ FinalAfterProgress =>
              /\ CountsAndIssues(reports'[Len(reports')]) =
                     CountsAndIssues(reports[Len(reports)])
              /\ reports'[Len(reports')].current_phase = "Completed"
              /\ reports'[Len(reports')].next_actions =
                     <<"Review deliverables", "Validate results", "Plan next iteration">>]_vars

\* C21 witness: a finished run in which a task failed; the final report and the
\* progress report before it show the same counts and the same issue, and
\* differ in phase and next_actions.
C21_Witness ==
    /\ pc = "done"
    /\ Len(reports) >= 3
    /\ reports[Len(reports)].failed_tasks >= 1
    /\ reports[Len(reports)].issues_encountered # <<>>
    /\ reports[Len(reports) - 1].kind = "progress"
    /\ CountsAndIssues(reports[Len(reports)]) = CountsAndIssues(reports[Len(reports) - 1])
    /\ reports[Len(reports) - 1].current_phase = "Integration & Completion"
    /\ reports[Len(reports)].current_phase = "Completed"
    /\ reports[Len(reports) - 1].next_actions # reports[Len(reports)].next_actions

\* C22: every task's status is pending, in_progress, completed or failed, and
\* blocked_tasks is 0 in every report, also in the reports of a session in
\* which a task waits for a dependency that can never complete.
C22_NeverBlockedOrCancelled ==
    /\ \A t \in DOMAIN tasks :
           tasks[t].status \in {PENDING, IN_PROGRESS, COMPLETED, FAILED}
    /\ \A i \in 1..Len(reports) : reports[i].blocked_tasks = 0

\* C22 witness: a report was made while a task waits in the queue for a
\* dependency id that no task has; the task is pending and the report counts
\* no blocked task.
C22_Witness ==
    /\ pc = "loop"
    /\ reports # <<>>
    /\ reports[Len(reports)].blocked_tasks = 0
    /\ \E t \in Range(task_queue) :
           /\ (NumTasks + 1) \in tasks[t].dependencies
           /\ tasks[t].status = PENDING
    /\ \E u \in DOMAIN tasks : tasks[u].status = FAILED

\* Every task in the pending queue has status pending.
QueuedArePending == \A i \in 1..Len(task_queue) : tasks[task_queue[i]].status = PENDING

\* A step of add_tasks puts the new task at the tail of the queue, logs one
\* task_added event for it and leaves the active set and the completed history.
AddTasksAppends ==
    (pc = "idle" /\ task_queue' # task_queue) =>
        /\ \E t \in DOMAIN tasks' \ DOMAIN tasks :
               /\ task_queue' = Append(task_queue, t)
               /\ execution_log' = Append(execution_log, <<"task_added", t>>)
        /\ UNCHANGED <<active_tasks, completed_tasks>>

\* C23 (as claimed): every task in the pending queue has status pending in
\* every state, and add_tasks appends each task at the tail of the queue, logs
\* one task_added event for it and leaves the active set and the completed
\* history unchanged.
C23_EnqueuedArePending ==
    /\ []QueuedArePending
    /\ [][AddTasksAppends]_vars

\* The tasks whose status is in_progress.
InProgress == {t \in DOMAIN tasks : tasks[t].status = IN_PROGRESS}

\* C24: at most one task has status in_progress, namely the task whose
\* _execute_task call is under way, and none has it between two calls or at a
\* tick boundary, that is after _check_task_completion and when a report is
\* generated.
C24_Sequential ==
    /\ Cardinality(InProgress) <= 1
    /\ pc = "work" => InProgress = {ready_tasks[idx]}
    /\ pc # "work" => InProgress = {}

\* C24 witness: the second task of a tick is in progress after the first task
\* of the tick was re-queued by a failed attempt.
C24_Witness ==
    /\ pc = "work"
    /\ idx = 2
    /\ tasks[ready_tasks[1]].status = PENDING
    /\ tasks[ready_tasks[1]].retry_count = 1
    /\ InProgress = {ready_tasks[2]}

\* The runner is at a tick boundary: _check_task_completion has returned and
\* no task of the next tick has been executed.
TickBoundary == pc \in {"report", "loop", "find", "final", "done"}

\* Task t has finished: its status is completed or failed.
HasFinished(t) == tasks[t].status = COMPLETED \/ tasks[t].status = FAILED

\* At a tick boundary no finished task is in the active set and every finished
\* task is in the completed history; the history never holds a task twice.
Reconciled ==
    /\ NoDuplicates(completed_tasks)
    /\ TickBoundary =>
          /\ \A i \in 1..Len(active_tasks) : ~HasFinished(active_tasks[i])
          /\ \A t \in DOMAIN tasks : HasFinished(t) <=> t \in Range(completed_tasks)

\* The completed history only grows: it stays a prefix of its next value, and
\* what _check_task_completion adds are tasks that finished in the current tick.
HistoryGrows ==
    /\ Len(completed_tasks') >= Len(completed_tasks)
    /\ SubSeq(completed_tasks', 1, Len(completed_tasks)) = completed_tasks
    /\ \A i \in (Len(completed_tasks) + 1)..Len(completed_tasks') :
           finished_tick[completed_tasks'[i]] = tick

\* C25: after _check_task_completion the active set holds no completed or failed
\* task; every task that finished is appended to the completed history in the
\* tick in which it finished, once; the history never holds a task twice and
\* only grows.
C25_Reconciliation ==
    /\ []Reconciled
    /\ [][HistoryGrows]_vars

\* C25 witness: one task completed in the first tick; another was re-queued in
\* the first tick and failed in the second; both are in the history, in the
\* order in which they finished, and the active set holds no finished task.
C25_Witness ==
    /\ pc = "report"
    /\ tick = 2
    /\ Len(completed_tasks) = 2
    /\ tasks[completed_tasks[1]].status = COMPLETED
    /\ finished_tick[completed_tasks[1]] = 1
    /\ tasks[completed_tasks[2]].status = FAILED
    /\ tasks[completed_tasks[2]].retry_count = 2
    /\ finished_tick[completed_tasks[2]] = 2

\* The number of the three collections (pending queue, active set, completed
\* history) that hold task t.
Holders(t) ==
    (IF t \in Range(task_queue) THEN 1 ELSE 0)
    + (IF t \in Range(active_tasks) THEN 1 ELSE 0)
    + (IF t \in Range(completed_tasks) THEN 1 ELSE 0)

\* C26 (as claimed): at every tick boundary every enqueued task is in exactly
\* one of the pending queue, the active set and the completed history, also a
\* task that a failed attempt re-queued.
C26_Partition ==
    TickBoundary => \A t \in DOMAIN tasks : Holders(t) = 1

\* C27 (as claimed): total_tasks of every report is the number of tasks
\* enqueued; completed_tasks + failed_tasks is at most total_tasks in every
\* report and equals it in the final report.
C27_TotalIsConstant ==
    \A i \in 1..Len(reports) :
        /\ reports[i].total_tasks = Cardinality(DOMAIN tasks)
        /\ reports[i].completed_tasks + reports[i].failed_tasks <= reports[i].total_tasks
        /\ reports[i].kind = "final" =>
              reports[i].completed_tasks + reports[i].failed_tasks = reports[i].total_tasks

\* The attempts of task t that raised: the attempts made, less the one that
\* completed and the one that is under way.
RaisedAttempts(t) ==
    attempts[t] - (IF tasks[t].status \in {COMPLETED, IN_PROGRESS} THEN 1 ELSE 0)

\* The task_retry and task_failed events logged for task t.
ErrorEvents(t) ==
    Len(SelectSeq(execution_log,
                  LAMBDA e : e[1] \in {"task_retry", "task_failed"} /\ e[2] = t))

\* error_log, retry_count and the raised attempts of every task agree.
ErrorsCounted ==
    \A t \in DOMAIN tasks :
        /\ Len(tasks[t].error_log) = tasks[t].retry_count
        /\ tasks[t].retry_count = RaisedAttempts(t)
        /\ tasks[t].retry_count = ErrorEvents(t)

\* An attempt that succeeds changes neither error_log nor retry_count.
SuccessKeepsErrors ==
    \A t \in DOMAIN tasks :
        (tasks[t].status # COMPLETED /\ tasks'[t].status = COMPLETED) =>
            /\ tasks'[t].error_log = tasks[t].error_log
            /\ tasks'[t].retry_count = tasks[t].retry_count

\* C28: for every task, enqueued with retry_count 0 and an empty error_log, the
\* length of error_log equals retry_count in every state and both equal the
\* number of attempts of the task that raised; a successful attempt changes
\* neither.
C28_ErrorLogMatchesRetryCount ==
    /\ []ErrorsCounted
    /\ [][SuccessKeepsErrors]_vars

\* C28 witness: a task completed on its second attempt, with one error logged
\* and retry_count 1, while another task failed with two of each.
C28_Witness ==
    \E t, u \in DOMAIN tasks :
        /\ tasks[t].status = COMPLETED
        /\ attempts[t] = 2
        /\ Len(tasks[t].error_log) = 1
        /\ tasks[t].retry_count = 1
        /\ tasks[u].status = FAILED
        /\ Len(tasks[u].error_log) = 2
        /\ tasks[u].retry_count = 2

\* The place of a phase label in the order of the phases.
PhaseRank(label) ==
    CASE label = "Discovery & Planning" -> 1
      [] label = "Core Implementation" -> 2
      [] label = "Validation & Security" -> 3
      [] label = "Integration & Completion" -> 4
      [] label = "Completed" -> 5

\* C29 (as claimed): from each report to the next the phase label stays or
\* moves forward in the order of the phases.
C29_PhaseNeverBackwards ==
    \A i \in 1..(Len(reports) - 1) :
        PhaseRank(reports[i].current_phase) <= PhaseRank(reports[i + 1].current_phase)

\* Task t is on a dependency cycle: it depends on itself, directly or through
\* other tasks.
OnCycle(t) == t \in TransitiveDeps(tasks, t)

\* Task t of the running session is on a dependency cycle or depends, directly
\* or through other tasks, on a task that is.
CycleBound(t) ==
    /\ pc # "idle"
    /\ \/ OnCycle(t)
       \/ \E d \in TransitiveDeps(tasks, t) \cap DOMAIN tasks : OnCycle(d)

\* The step starts task t or changes one of its fields, or moves it into or out
\* of the pending queue, the active set or the completed history.
Touches(t) ==
    \/ tasks'[t] # tasks[t]
    \/ attempts'[t] # attempts[t]
    \/ (t \in Range(task_queue')) # (t \in Range(task_queue))
    \/ (t \in Range(active_tasks')) # (t \in Range(active_tasks))
    \/ (t \in Range(completed_tasks')) # (t \in Range(completed_tasks))

\* Before the run every task is pending, in the pending queue and not started.
EnqueuedUntouched ==
    pc = "idle" =>
        \A t \in DOMAIN tasks :
            /\ tasks[t].status = PENDING /\ attempts[t] = 0
            /\ t \in Range(task_queue)
            /\ t \notin Range(active_tasks) /\ t \notin Range(completed_tasks)

\* No step of the run touches a task that is on a dependency cycle or depends
\* on one; the loop does not exit while there is such a task; and a report that
\* is made counts no blocked task.
CycleBoundUntouched ==
    /\ \A t \in DOMAIN tasks : Touches(t) => ~CycleBound(t)
    /\ (LoopExited' /\ ~LoopExited) => \A t \in DOMAIN tasks : ~CycleBound(t)
    /\ (reports' # reports) => reports'[Len(reports')].blocked_tasks = 0

\* C30: a task on a dependency cycle, or depending on one, is never started: it
\* is pending and in the pending queue when the run begins and no step changes
\* that, so it keeps status pending in the queue for ever; no report counts a
\* blocked task, and the loop of start_autonomous_execution does not exit.
C30_CycleNeverStarts ==
    /\ []EnqueuedUntouched
    /\ [][CycleBoundUntouched]_vars

\* C30 witness: every dependency id names an enqueued task; task 1 lists its
\* own id and task 2 depends on task 1; task 3 has completed and been reported,
\* and the loop has made an iteration that found nothing ready.
C30_Witness ==
    /\ pc = "report"
    /\ ready_tasks = <<>>
    /\ reports # <<>>
    /\ DOMAIN tasks = {1, 2, 3}
    /\ tasks[1].dependencies = {1}
    /\ tasks[2].dependencies = {1}
    /\ tasks[3].dependencies = {} /\ tasks[3].status = COMPLETED
    /\ task_queue = <<1, 2>>

====
